---- MODULE Spec2Model ----
(***************************************************************************)
(* The block pool of the fast-sync reactor (blockchainexp/pool.go): the    *)
(* registry of peers, the plan of heights awaiting assignment, the map     *)
(* from height to assigned peer, the height of the next block to execute   *)
(* and the maximum height of all peers.  Every method of blockPool that    *)
(* changes state is one action; a method whose outcome depends on the      *)
(* iteration order of a Go map or on the answer of the reactor is an       *)
(* operator that yields the set of all pools it can leave behind.          *)
(***************************************************************************)
EXTENDS Integers, FiniteSets, Sequences, TLC

\* ---------------------------------------------------------------- bounds
MaxHeight == 3           \* the largest height a peer advertises
MaxInitHeight == 2       \* NewBlockPool(height) is called with 1..MaxInitHeight
maxNumRequests == 2      \* the argument of every MakeNextRequests call
maxRequestsPerPeer == 1  \* limit of pending requests per peer
MaxMsgHeight == 8        \* the largest height carried by a message of the codec

\* the peers that ever talk to the pool
PeerIDs == {"A", "B"}
Heights == 1..MaxHeight

\* ----------------------------------------------------------------- state
VARIABLES
    peers,              \* pool.peers: peer ID -> bpPeer
    blocks,             \* pool.blocks: height -> peer ID
    plannedRequests,    \* pool.plannedRequests: set of heights
    nextRequestHeight,  \* pool.nextRequestHeight
    Height,             \* pool.Height
    MaxPeerHeight,      \* pool.MaxPeerHeight
    lastCall,           \* the last method called, its arguments and its result
    codec               \* the message the codec works on, its wire form and its decoding

poolVars == <<peers, blocks, plannedRequests, nextRequestHeight, Height, MaxPeerHeight>>
vars == <<peers, blocks, plannedRequests, nextRequestHeight, Height, MaxPeerHeight,
          lastCall, codec>>

\* The blockPool struct as one value, so that methods are operators on it.
\* toBcR is the reactor as the current call sees it: the sendBlockRequest
\* calls made so far in the call, each with the reactor's answer.  logger is
\* the batch of heights MakeNextRequests logs before it dispatches them.
blockPool ==
    [peers |-> peers, blocks |-> blocks, plannedRequests |-> plannedRequests,
     nextRequestHeight |-> nextRequestHeight, Height |-> Height,
     MaxPeerHeight |-> MaxPeerHeight, toBcR |-> <<>>, logger |-> {}]

\* ------------------------------------------------------------- Go maps
EmptyMap == [k \in {} |-> 0]
MapDelete(m, k) == [x \in (DOMAIN m) \ {k} |-> m[x]]
MapPut(m, k, v) == [x \in (DOMAIN m) \cup {k} |-> IF x = k THEN v ELSE m[x]]

MinOf(S) == CHOOSE x \in S : \A y \in S : x <= y

\* ------------------------------------------------------------ peer record
\* A bpPeer: its advertised height, the heights requested and not answered,
\* and the heights whose block has arrived and is not yet executed.
NewBPPeer(height) == [Height |-> height, pending |-> {}, delivered |-> {}]

\* keys of peer.blocks: every height requested from or received from the peer
PeerBlocks(peer) == peer.pending \cup peer.delivered

NumPendingBlockRequests(peer) == Cardinality(peer.pending)

RequestSent(peer, h) == [peer EXCEPT !.pending = @ \cup {h}]

PeerRemoveBlock(peer, h) ==
    [peer EXCEPT !.pending = @ \ {h}, !.delivered = @ \ {h}]

\* peer.AddBlock succeeds exactly when the height is pending
PeerAddBlockOk(peer, h) == h \in peer.pending
PeerAddBlock(peer, h) ==
    [peer EXCEPT !.pending = @ \ {h}, !.delivered = @ \cup {h}]

\* peer.BlockAtHeight(h) returns a block (no error)
BlockAtHeight(peer, h) == h \in peer.delivered

\* ------------------------------------------------------------ pool methods
ReachedMaxHeight(pool) == pool.Height >= pool.MaxPeerHeight

NeedsBlocks(pool) == Cardinality(DOMAIN pool.blocks) < maxNumRequests

\* rescheduleRequest that leaves the height assigned to the peer
rescheduleRequest_KeepsBlock(pool, peerID, h) ==
    [pool EXCEPT !.plannedRequests = @ \cup {h},
                 !.peers = [@ EXCEPT ![peerID] = PeerRemoveBlock(@, h)]]

\* rescheduleRequest that forgets to plan the height again
rescheduleRequest_NotPlanned(pool, peerID, h) ==
    [pool EXCEPT !.blocks = MapDelete(@, h),
                 !.peers = [@ EXCEPT ![peerID] = PeerRemoveBlock(@, h)]]

rescheduleRequest(pool, peerID, h) ==
    [pool EXCEPT !.plannedRequests = @ \cup {h},
                 !.blocks = MapDelete(@, h),
                 !.peers = [@ EXCEPT ![peerID] = PeerRemoveBlock(@, h)]]

RECURSIVE MaxOver(_, _)
\* the loop of updateMaxPeerHeight: newMax starts at acc and grows
MaxOver(S, acc) ==
    IF S = {} THEN acc
    ELSE LET x == CHOOSE y \in S : TRUE
         IN MaxOver(S \ {x}, IF x > acc THEN x ELSE acc)

updateMaxPeerHeight(pool) ==
    [pool EXCEPT !.MaxPeerHeight =
        MaxOver({pool.peers[p].Height : p \in DOMAIN pool.peers}, 0)]

\* deletePeer that never recomputes the maximum
deletePeer_NoRecompute(pool, peerID) ==
    [pool EXCEPT !.peers = MapDelete(@, peerID)]

deletePeer(pool, peerID) ==
    LET peer == pool.peers[peerID]
        deleted == [pool EXCEPT !.peers = MapDelete(@, peerID)]
    IN IF peer.Height = pool.MaxPeerHeight
       THEN updateMaxPeerHeight(deleted)
       ELSE deleted

RECURSIVE rescheduleAll(_, _, _)
\* the loop "for h := range pool.peers[peerID].blocks" of RemovePeer
rescheduleAll(pool, peerID, hs) ==
    IF hs = {} THEN pool
    ELSE LET h == CHOOSE x \in hs : TRUE
         IN rescheduleAll(rescheduleRequest(pool, peerID, h), peerID, hs \ {h})

\* dropOverMax that adjusts nextRequestHeight only
dropOverMax_KeepsPlanned(pool) ==
    [pool EXCEPT !.nextRequestHeight =
                     IF @ > pool.MaxPeerHeight THEN pool.MaxPeerHeight + 1 ELSE @]

\* the branch of RemovePeer taken when the pool's MaxPeerHeight was lowered
dropOverMax(pool) ==
    [pool EXCEPT !.plannedRequests = {h \in @ : h <= pool.MaxPeerHeight},
                 !.nextRequestHeight =
                     IF @ > pool.MaxPeerHeight THEN pool.MaxPeerHeight + 1 ELSE @]

\* RemovePeer that adjusts the plan also when the peer is not in the pool
RemovePeer_UnknownAdjusts(pool, peerID) ==
    IF peerID \notin DOMAIN pool.peers THEN dropOverMax(pool)
    ELSE LET rescheduled ==
                 rescheduleAll(pool, peerID, PeerBlocks(pool.peers[peerID]))
             oldMaxPeerHeight == rescheduled.MaxPeerHeight
             deleted == deletePeer(rescheduled, peerID)
         IN IF oldMaxPeerHeight > deleted.MaxPeerHeight
            THEN dropOverMax(deleted)
            ELSE deleted

RemovePeer(pool, peerID) ==
    IF peerID \notin DOMAIN pool.peers THEN pool
    ELSE LET rescheduled ==
                 rescheduleAll(pool, peerID, PeerBlocks(pool.peers[peerID]))
             oldMaxPeerHeight == rescheduled.MaxPeerHeight
             deleted == deletePeer(rescheduled, peerID)
         IN IF oldMaxPeerHeight > deleted.MaxPeerHeight
            THEN dropOverMax(deleted)
            ELSE deleted

RECURSIVE removeShortPeersFrom_OffByOne(_, _)
\* removeShortPeers that keeps a peer one block short of pool.Height
removeShortPeersFrom_OffByOne(pool, todo) ==
    IF todo = {} THEN {pool}
    ELSE UNION { removeShortPeersFrom_OffByOne(
                     IF pool.peers[p].Height + 1 < pool.Height
                     THEN RemovePeer(pool, p) ELSE pool,
                     todo \ {p}) : p \in todo }

RECURSIVE removeShortPeersFrom(_, _)
\* the loop of removeShortPeers over the peers not yet visited, in any order
\* of the Go map: the set of pools the loop can end in
removeShortPeersFrom(pool, todo) ==
    IF todo = {} THEN {pool}
    ELSE UNION { removeShortPeersFrom(
                     IF pool.peers[p].Height < pool.Height
                     THEN RemovePeer(pool, p) ELSE pool,
                     todo \ {p}) : p \in todo }

removeShortPeers(pool) == removeShortPeersFrom(pool, DOMAIN pool.peers)

\* peer.CheckRate() may report a slow peer only while requests are pending
CheckRateMayFail(peer) == peer.pending # {}

RECURSIVE removeSlowPeersFrom(_, _)
\* the second loop of removeBadPeers: every peer whose CheckRate fails is removed
removeSlowPeersFrom(pool, todo) ==
    IF todo = {} THEN {pool}
    ELSE UNION { removeSlowPeersFrom(pool, todo \ {p})
                 \cup (IF CheckRateMayFail(pool.peers[p])
                       THEN removeSlowPeersFrom(RemovePeer(pool, p), todo \ {p})
                       ELSE {}) : p \in todo }

removeBadPeers(pool) ==
    UNION { removeSlowPeersFrom(q, DOMAIN q.peers) : q \in removeShortPeers(pool) }

RECURSIVE planLoop(_, _)
\* the loop of makeRequestBatch that adds heights to plannedRequests
planLoop(pool, numNeeded) ==
    IF Cardinality(pool.plannedRequests) < numNeeded
       /\ ~(pool.nextRequestHeight > pool.MaxPeerHeight)
    THEN planLoop([pool EXCEPT !.plannedRequests = @ \cup {pool.nextRequestHeight},
                               !.nextRequestHeight = @ + 1], numNeeded)
    ELSE pool

\* makeRequestBatch that does not subtract the requests already made
makeRequestBatch_IgnoresBlocks(pool, maxNum) ==
    { planLoop(q, maxNum) : q \in removeBadPeers(pool) }

\* The pools makeRequestBatch can leave; the batch it returns is the sorted
\* plannedRequests of that pool.
makeRequestBatch(pool, maxNum) ==
    { planLoop(q, maxNum - Cardinality(DOMAIN q.blocks)) : q \in removeBadPeers(pool) }

\* pool.toBcR.sendBlockRequest(p, h) answered err
sendBlockRequest(pool, p, h, err) ==
    [pool EXCEPT !.toBcR = Append(@, [peer |-> p, height |-> h, err |-> err])]

\* the assignment at the end of the loop body of sendRequest
assignRequest(pool, p, h) ==
    [pool EXCEPT !.blocks = MapPut(@, h, p),
                 !.peers = [@ EXCEPT ![p] = RequestSent(@, h)]]

\* skipPeer without the check of the pending requests
skipPeer_IgnoresPending(peer, h) == peer.Height < h

\* sendRequest skips a peer that has no room for a request or is too short
skipPeer(peer, h) ==
    NumPendingBlockRequests(peer) >= maxRequestsPerPeer \/ peer.Height < h

RECURSIVE sendRequestFrom(_, _, _)
\* sendRequest over the peers not yet visited: the set of <<pool, sent>> it
\* can return, for every order of the Go map and every answer of the reactor
sendRequestFrom(pool, h, todo) ==
    IF todo = {} THEN {<<pool, FALSE>>}
    ELSE UNION {
        IF skipPeer(pool.peers[p], h)
        THEN sendRequestFrom(pool, h, todo \ {p})
        ELSE sendRequestFrom(
                 RemovePeer(sendBlockRequest(pool, p, h, "errNilPeerForBlockRequest"), p),
                 h, todo \ {p})
             \cup sendRequestFrom(
                 sendBlockRequest(pool, p, h, "errSendQueueFull"), h, todo \ {p})
             \cup {<<assignRequest(sendBlockRequest(pool, p, h, "nil"), p, h), TRUE>>}
        : p \in todo }

sendRequest(pool, h) == sendRequestFrom(pool, h, DOMAIN pool.peers)

RECURSIVE dispatch_KeepsPlanned(_, _)
\* the loop of MakeNextRequests without delete(pool.plannedRequests, h)
dispatch_KeepsPlanned(pool, heights) ==
    IF heights = {} THEN {pool}
    ELSE LET h == MinOf(heights)
         IN UNION { IF r[2]
                    THEN dispatch_KeepsPlanned(r[1], heights \ {h})
                    ELSE {r[1]} : r \in sendRequest(pool, h) }

RECURSIVE dispatch_ContinuesAfterFailure(_, _)
\* the loop of MakeNextRequests without the return at the first failure
dispatch_ContinuesAfterFailure(pool, heights) ==
    IF heights = {} THEN {pool}
    ELSE LET h == MinOf(heights)
         IN UNION { IF r[2]
                    THEN dispatch_ContinuesAfterFailure(
                             [r[1] EXCEPT !.plannedRequests = @ \ {h}], heights \ {h})
                    ELSE dispatch_ContinuesAfterFailure(r[1], heights \ {h})
                    : r \in sendRequest(pool, h) }

RECURSIVE dispatch(_, _)
\* the loop of MakeNextRequests over the batch, lowest height first
dispatch(pool, heights) ==
    IF heights = {} THEN {pool}
    ELSE LET h == MinOf(heights)
         IN UNION { IF r[2]
                    THEN dispatch([r[1] EXCEPT !.plannedRequests = @ \ {h}],
                                  heights \ {h})
                    ELSE {r[1]} : r \in sendRequest(pool, h) }

MakeNextRequestsOf(pool, maxNum) ==
    UNION { dispatch([q EXCEPT !.logger = q.plannedRequests], q.plannedRequests)
            : q \in makeRequestBatch(pool, maxNum) }

\* UpdatePeer that lets a known peer lower its height
UpdatePeerOf_AcceptsLowerHeight(pool, peerID, height) ==
    IF peerID \notin DOMAIN pool.peers
    THEN IF height < pool.Height
         THEN [pool |-> pool, err |-> "errPeerTooShort"]
         ELSE [pool |-> updateMaxPeerHeight(
                   [pool EXCEPT !.peers = MapPut(@, peerID, NewBPPeer(height))]),
               err |-> "nil"]
    ELSE [pool |-> updateMaxPeerHeight(
              [pool EXCEPT !.peers = [@ EXCEPT ![peerID].Height = height]]),
          err |-> "nil"]

\* UpdatePeer that adds a new peer whatever its height
UpdatePeerOf_AdmitsShortPeer(pool, peerID, height) ==
    IF peerID \notin DOMAIN pool.peers
    THEN [pool |-> updateMaxPeerHeight(
              [pool EXCEPT !.peers = MapPut(@, peerID, NewBPPeer(height))]),
          err |-> "nil"]
    ELSE IF height < pool.peers[peerID].Height
         THEN [pool |-> RemovePeer(pool, peerID), err |-> "errPeerLowersItsHeight"]
         ELSE [pool |-> updateMaxPeerHeight(
                   [pool EXCEPT !.peers = [@ EXCEPT ![peerID].Height = height]]),
               err |-> "nil"]

UpdatePeerOf(pool, peerID, height) ==
    IF peerID \notin DOMAIN pool.peers
    THEN IF height < pool.Height
         THEN [pool |-> pool, err |-> "errPeerTooShort"]
         ELSE [pool |-> updateMaxPeerHeight(
                   [pool EXCEPT !.peers = MapPut(@, peerID, NewBPPeer(height))]),
               err |-> "nil"]
    ELSE IF height < pool.peers[peerID].Height
         THEN [pool |-> RemovePeer(pool, peerID), err |-> "errPeerLowersItsHeight"]
         ELSE [pool |-> updateMaxPeerHeight(
                   [pool EXCEPT !.peers = [@ EXCEPT ![peerID].Height = height]]),
               err |-> "nil"]

\* AddBlock that removes the peer that sent a block it was not asked for
AddBlockOf_RemovesPeer(pool, peerID, h) ==
    IF peerID \notin DOMAIN pool.peers
    THEN [pool |-> pool, err |-> "errBadDataFromPeer"]
    ELSE IF h \in DOMAIN pool.blocks /\ pool.blocks[h] # peerID
    THEN [pool |-> RemovePeer(pool, peerID), err |-> "errBadDataFromPeer"]
    ELSE IF PeerAddBlockOk(pool.peers[peerID], h)
    THEN [pool |-> [pool EXCEPT !.peers = [@ EXCEPT ![peerID] = PeerAddBlock(@, h)]],
          err |-> "nil"]
    ELSE [pool |-> pool, err |-> "errBadDataFromPeer"]

AddBlockOf(pool, peerID, h) ==
    IF peerID \notin DOMAIN pool.peers
    THEN [pool |-> pool, err |-> "errBadDataFromPeer"]
    ELSE IF h \in DOMAIN pool.blocks /\ pool.blocks[h] # peerID
    THEN [pool |-> pool, err |-> "errBadDataFromPeer"]
    ELSE IF PeerAddBlockOk(pool.peers[peerID], h)
    THEN [pool |-> [pool EXCEPT !.peers = [@ EXCEPT ![peerID] = PeerAddBlock(@, h)]],
          err |-> "nil"]
    ELSE [pool |-> pool, err |-> "errBadDataFromPeer"]

\* BlockAndPeerAtHeight returns no error: the height is assigned to a peer of
\* the pool and that peer holds the block
BlockAndPeerAtHeightOk(pool, h) ==
    /\ h \in DOMAIN pool.blocks
    /\ pool.blocks[h] \in DOMAIN pool.peers
    /\ BlockAtHeight(pool.peers[pool.blocks[h]], h)

InvalidateFirstTwoBlocksOf(pool) ==
    LET H == pool.Height
        ok1 == BlockAndPeerAtHeightOk(pool, H)
        ok2 == BlockAndPeerAtHeightOk(pool, H + 1)
        afterFirst == IF ok1 THEN RemovePeer(pool, pool.blocks[H]) ELSE pool
    IN IF ok2 THEN RemovePeer(afterFirst, pool.blocks[H + 1]) ELSE afterFirst

\* the peer of pool.blocks[h] is in the pool and has not delivered the block
undeliveredAt(pool, h) ==
    /\ h \in DOMAIN pool.blocks
    /\ pool.blocks[h] \in DOMAIN pool.peers
    /\ ~BlockAtHeight(pool.peers[pool.blocks[h]], h)

\* RemovePeerAtCurrentHeights without the return after the first removal
RemovePeerAtCurrentHeightsOf_NoReturn(pool) ==
    LET first == IF undeliveredAt(pool, pool.Height)
                 THEN RemovePeer(pool, pool.blocks[pool.Height])
                 ELSE pool
    IN IF undeliveredAt(first, first.Height + 1)
       THEN RemovePeer(first, first.blocks[first.Height + 1])
       ELSE first

RemovePeerAtCurrentHeightsOf(pool) ==
    IF undeliveredAt(pool, pool.Height)
    THEN RemovePeer(pool, pool.blocks[pool.Height])
    ELSE IF undeliveredAt(pool, pool.Height + 1)
    THEN RemovePeer(pool, pool.blocks[pool.Height + 1])
    ELSE pool

\* ProcessedCurrentHeightBlock that advances only past a block it holds
ProcessedCurrentHeightBlockOf_NeedsBlock(pool) ==
    LET H == pool.Height
    IN IF H \in DOMAIN pool.blocks
       THEN removeShortPeers(
                [pool EXCEPT !.peers =
                                 [@ EXCEPT ![pool.blocks[H]] = PeerRemoveBlock(@, H)],
                             !.blocks = MapDelete(@, H),
                             !.Height = @ + 1])
       ELSE {pool}

\* ProcessedCurrentHeightBlock that leaves the block with its peer
ProcessedCurrentHeightBlockOf_KeepsPeerBlock(pool) ==
    removeShortPeers([pool EXCEPT !.blocks = MapDelete(@, pool.Height),
                                  !.Height = @ + 1])

ProcessedCurrentHeightBlockOf(pool) ==
    LET H == pool.Height
        removed == IF H \in DOMAIN pool.blocks
                   THEN [pool EXCEPT !.peers =
                            [@ EXCEPT ![pool.blocks[H]] = PeerRemoveBlock(@, H)]]
                   ELSE pool
        advanced == [removed EXCEPT !.blocks = MapDelete(@, H), !.Height = @ + 1]
    IN removeShortPeers(advanced)

\* ------------------------------------------------------------------ codec
\* Messages and their wire form (MsgToProto, MsgFromProto).  A message is
\* [type, Height] or [type, Block]; a block is identified by its height, and
\* NilBlock is the nil pointer.  A wire message is [sum, Height] or [sum, Block].
NoMessage == [type |-> "nil"]
NoWire == [sum |-> "nil"]
NilBlock == [nil |-> TRUE]

MsgHeights == (0 - 1)..MaxMsgHeight

HeightMessageTypes ==
    {"BlockRequestMessage", "NoBlockResponseMessage",
     "StatusRequestMessage", "StatusResponseMessage"}

Messages ==
    [type : HeightMessageTypes, Height : MsgHeights]
    \cup [type : {"BlockResponseMessage"},
          Block : {NilBlock} \cup [Height : MsgHeights]]
    \cup {[type |-> "unknown"]}

\* types.Block.ToProto and types.Block.FromProto
BlockToProto(b) == [Header |-> [Height |-> b.Height]]
BlockFromProto(pb) == [Height |-> pb.Header.Height]

\* ValidateBasic of a message: positive heights, a block that is not nil
ValidateBasic(m) ==
    IF m.type = "BlockResponseMessage"
    THEN m.Block # NilBlock /\ m.Block.Height > 0
    ELSE m.Height > 0

MsgToProto(m) ==
    CASE m.type = "BlockRequestMessage" ->
             [wire |-> [sum |-> "BlockRequest", Height |-> m.Height], err |-> "nil"]
      [] m.type = "BlockResponseMessage" ->
             IF m.Block = NilBlock
             THEN [wire |-> NoWire, err |-> "nil Block"]
             ELSE [wire |-> [sum |-> "BlockResponse", Block |-> BlockToProto(m.Block)],
                   err |-> "nil"]
      [] m.type = "NoBlockResponseMessage" ->
             [wire |-> [sum |-> "NoBlockResponse", Height |-> m.Height], err |-> "nil"]
      [] m.type = "StatusResponseMessage" ->
             [wire |-> [sum |-> "StatusRequest", Height |-> m.Height], err |-> "nil"]
      [] m.type = "StatusRequestMessage" ->
             [wire |-> [sum |-> "StatusResponse", Height |-> m.Height], err |-> "nil"]
      [] OTHER ->
             [wire |-> NoWire, err |-> "evidence is not recognized"]

\* the message of a decoded variant, or the error of its ValidateBasic
validated(m) ==
    IF ValidateBasic(m) THEN [msg |-> m, err |-> "nil"]
    ELSE [msg |-> NoMessage, err |-> "invalid"]

MsgFromProto(w) ==
    CASE w.sum = "BlockRequest" ->
             validated([type |-> "BlockRequestMessage", Height |-> w.Height])
      [] w.sum = "NoBlockResponse" ->
             validated([type |-> "NoBlockResponseMessage", Height |-> w.Height])
      [] w.sum = "BlockResponse" ->
             validated([type |-> "BlockResponseMessage", Block |-> BlockFromProto(w.Block)])
      [] w.sum = "StatusRequest" ->
             validated([type |-> "StatusRequestMessage", Height |-> w.Height])
      [] w.sum = "StatusResponse" ->
             validated([type |-> "StatusRequestMessage", Height |-> w.Height])
      [] OTHER ->
             [msg |-> NoMessage, err |-> "evidence is not recognized"]

\* ---------------------------------------------------------------- actions
\* ret is the error a method returns; for RemovePeer, which returns nothing,
\* it tells whether the peer was found.  sent is the reactor's view of the
\* call, batch the heights MakeNextRequests set out to request.
Call(op, peerID, height, ret, sent, batch) ==
    [op |-> op, peer |-> peerID, height |-> height, ret |-> ret, sent |-> sent,
     batch |-> batch]

SetPool(pool) ==
    /\ peers' = pool.peers
    /\ blocks' = pool.blocks
    /\ plannedRequests' = pool.plannedRequests
    /\ nextRequestHeight' = pool.nextRequestHeight
    /\ Height' = pool.Height
    /\ MaxPeerHeight' = pool.MaxPeerHeight
    /\ codec' = codec

\* NewBlockPool(height, toBcR)
Init ==
    \E height \in 1..MaxInitHeight :
        /\ peers = EmptyMap
        /\ MaxPeerHeight = 0
        /\ blocks = EmptyMap
        /\ plannedRequests = {}
        /\ nextRequestHeight = height
        /\ Height = height
        /\ lastCall = Call("NewBlockPool", "", height, "nil", <<>>, {})
        /\ codec = [stage |-> "idle"]

UpdatePeer ==
    \E peerID \in PeerIDs, height \in Heights :
        LET r == UpdatePeerOf(blockPool, peerID, height)
        IN /\ SetPool(r.pool)
           /\ lastCall' = Call("UpdatePeer", peerID, height, r.err, <<>>, {})

RemovePeerCall ==
    \E peerID \in PeerIDs :
        /\ SetPool(RemovePeer(blockPool, peerID))
        /\ lastCall' = Call("RemovePeer", peerID, 0,
                             IF peerID \in DOMAIN peers THEN "removed" ELSE "noPeer",
                             <<>>, {})

MakeNextRequests ==
    \E q \in MakeNextRequestsOf(blockPool, maxNumRequests) :
        /\ SetPool(q)
        /\ lastCall' = Call("MakeNextRequests", "", 0, "nil", q.toBcR, q.logger)

AddBlock ==
    \E peerID \in PeerIDs, h \in Heights :
        LET r == AddBlockOf(blockPool, peerID, h)
        IN /\ SetPool(r.pool)
           /\ lastCall' = Call("AddBlock", peerID, h, r.err, <<>>, {})

InvalidateFirstTwoBlocks ==
    /\ SetPool(InvalidateFirstTwoBlocksOf(blockPool))
    /\ lastCall' = Call("InvalidateFirstTwoBlocks", "", 0, "nil", <<>>, {})

RemovePeerAtCurrentHeights ==
    /\ SetPool(RemovePeerAtCurrentHeightsOf(blockPool))
    /\ lastCall' = Call("RemovePeerAtCurrentHeights", "", 0, "nil", <<>>, {})

\* pool.Height is kept within the heights of the model
ProcessedCurrentHeightBlock ==
    /\ Height <= MaxHeight
    /\ \E q \in ProcessedCurrentHeightBlockOf(blockPool) :
        /\ SetPool(q)
        /\ lastCall' = Call("ProcessedCurrentHeightBlock", "", 0, "nil", <<>>, {})

Next ==
    \/ UpdatePeer
    \/ RemovePeerCall
    \/ MakeNextRequests
    \/ AddBlock
    \/ InvalidateFirstTwoBlocks
    \/ RemovePeerAtCurrentHeights
    \/ ProcessedCurrentHeightBlock

Spec == Init /\ [][Next]_vars

\* The pool as the FSM drives it: the executor reports a block as processed
\* only when the block at pool.Height has been delivered.
ProcessedDeliveredBlock ==
    /\ BlockAndPeerAtHeightOk(blockPool, Height)
    /\ ProcessedCurrentHeightBlock

NextFSM ==
    \/ UpdatePeer
    \/ RemovePeerCall
    \/ MakeNextRequests
    \/ AddBlock
    \/ InvalidateFirstTwoBlocks
    \/ RemovePeerAtCurrentHeights
    \/ ProcessedDeliveredBlock

SpecFSM == Init /\ [][NextFSM]_vars

\* The pool during a sync in which one peer, GoodPeer, serves: it is not
\* removed by the switch, does not lower its height, is never reported slow,
\* accepts every block request and delivers every block it was asked for.
\* The other peers and the timers of the FSM act as they like.
GoodPeer == "A"

\* the good peer is still a peer of pool, unless it was not one before
keepsGoodPeer(pool) == GoodPeer \in DOMAIN peers => GoodPeer \in DOMAIN pool.peers

\* the reactor answered nil to every request it sent to the good peer
goodPeerAccepts(pool) ==
    \A i \in DOMAIN pool.toBcR :
        pool.toBcR[i].peer = GoodPeer => pool.toBcR[i].err = "nil"

SyncUpdatePeer ==
    \E peerID \in PeerIDs, height \in Heights :
        LET r == UpdatePeerOf(blockPool, peerID, height)
        IN /\ keepsGoodPeer(r.pool)
           /\ SetPool(r.pool)
           /\ lastCall' = Call("UpdatePeer", peerID, height, r.err, <<>>, {})

SyncRemovePeer ==
    \E peerID \in PeerIDs \ {GoodPeer} :
        /\ SetPool(RemovePeer(blockPool, peerID))
        /\ lastCall' = Call("RemovePeer", peerID, 0,
                             IF peerID \in DOMAIN peers THEN "removed" ELSE "noPeer",
                             <<>>, {})

SyncMakeNextRequests ==
    \E q \in MakeNextRequestsOf(blockPool, maxNumRequests) :
        /\ keepsGoodPeer(q)
        /\ goodPeerAccepts(q)
        /\ SetPool(q)
        /\ lastCall' = Call("MakeNextRequests", "", 0, "nil", q.toBcR, q.logger)

\* the good peer delivers a block it was asked for
GoodPeerDelivers ==
    /\ GoodPeer \in DOMAIN peers
    /\ \E h \in peers[GoodPeer].pending :
           LET r == AddBlockOf(blockPool, GoodPeer, h)
           IN /\ SetPool(r.pool)
              /\ lastCall' = Call("AddBlock", GoodPeer, h, r.err, <<>>, {})

OtherPeerSendsBlock ==
    \E peerID \in PeerIDs \ {GoodPeer}, h \in Heights :
        LET r == AddBlockOf(blockPool, peerID, h)
        IN /\ SetPool(r.pool)
           /\ lastCall' = Call("AddBlock", peerID, h, r.err, <<>>, {})

\* the executor rejects a block of another peer
SyncInvalidateFirstTwoBlocks ==
    /\ keepsGoodPeer(InvalidateFirstTwoBlocksOf(blockPool))
    /\ InvalidateFirstTwoBlocks

\* the stall timer of the FSM fires while another peer owes the block at
\* pool.Height or the one after it
RemoveStalledPeer ==
    /\ undeliveredAt(blockPool, Height) \/ undeliveredAt(blockPool, Height + 1)
    /\ keepsGoodPeer(RemovePeerAtCurrentHeightsOf(blockPool))
    /\ RemovePeerAtCurrentHeights

NextSync ==
    \/ SyncUpdatePeer
    \/ SyncRemovePeer
    \/ SyncMakeNextRequests
    \/ GoodPeerDelivers
    \/ OtherPeerSendsBlock
    \/ SyncInvalidateFirstTwoBlocks
    \/ RemoveStalledPeer
    \/ ProcessedDeliveredBlock

\* the outcomes of a request tick that SyncMakeNextRequests allows
tickOutcomes ==
    { q \in MakeNextRequestsOf(blockPool, maxNumRequests) :
          keepsGoodPeer(q) /\ goodPeerAccepts(q) }

\* ENABLED <<SyncMakeNextRequests>>_vars: some outcome of the tick differs
\* from the current state
tickEnabled ==
    \E q \in tickOutcomes :
        <<q.peers, q.blocks, q.plannedRequests, q.nextRequestHeight, q.Height,
          q.MaxPeerHeight, Call("MakeNextRequests", "", 0, "nil", q.toBcR, q.logger)>>
            # <<peers, blocks, plannedRequests, nextRequestHeight, Height,
                MaxPeerHeight, lastCall>>

\* ENABLED <<ProcessedDeliveredBlock>>_vars: the step always changes Height
processedEnabled ==
    BlockAndPeerAtHeightOk(blockPool, Height) /\ Height <= MaxHeight

\* ENABLED <<RemoveStalledPeer>>_vars: the step always removes a peer
stalledEnabled ==
    /\ undeliveredAt(blockPool, Height) \/ undeliveredAt(blockPool, Height + 1)
    /\ keepsGoodPeer(RemovePeerAtCurrentHeightsOf(blockPool))

\* Request ticks keep coming, the good peer delivers, the executor reports
\* every delivered block at pool.Height and the stall timer keeps firing.
\* Each condition is weak fairness of its action; for three of them
\* WF_vars(A) is written out as []<>~ENABLED <<A>>_vars \/ []<><<A>>_vars
\* with the enabling condition as a state predicate.
SpecSync ==
    /\ Init
    /\ [][NextSync]_vars
    /\ WF_vars(GoodPeerDelivers)
    /\ ([]<>(~tickEnabled) \/ []<><<SyncMakeNextRequests>>_vars)
    /\ ([]<>(~processedEnabled) \/ []<><<ProcessedDeliveredBlock>>_vars)
    /\ ([]<>(~stalledEnabled) \/ []<><<RemoveStalledPeer>>_vars)

\* The codec on its own: a message is encoded for a peer, and what is on
\* the wire is decoded.
Encode ==
    /\ codec.stage = "idle"
    /\ \E m \in Messages :
           LET r == MsgToProto(m)
           IN codec' = [stage |-> "encoded", msg |-> m, wire |-> r.wire, err |-> r.err]
    /\ UNCHANGED <<poolVars, lastCall>>

Decode ==
    /\ codec.stage = "encoded"
    /\ codec.err = "nil"
    /\ LET r == MsgFromProto(codec.wire)
       IN codec' = [stage |-> "decoded", msg |-> codec.msg, wire |-> codec.wire,
                    err |-> r.err, out |-> r.msg]
    /\ UNCHANGED <<poolVars, lastCall>>

NextCodec ==
    \/ Encode
    \/ Decode

SpecCodec == Init /\ [][NextCodec]_vars

\* ----------------------------------------------------------------- claims
\* C1: every height of pool.blocks is assigned to a peer of pool.peers, and
\* that peer holds the height as a pending request or a delivered block.
C1_BlocksNameLivePeers ==
    \A h \in DOMAIN blocks :
        /\ blocks[h] \in DOMAIN peers
        /\ h \in peers[blocks[h]].pending \cup peers[blocks[h]].delivered

\* a peer was removed while the other one keeps a delivered block
C1_Witness ==
    /\ lastCall.op \in {"RemovePeer", "ProcessedCurrentHeightBlock", "MakeNextRequests"}
    /\ Cardinality(DOMAIN peers) = 1
    /\ plannedRequests # {}
    /\ \E h \in DOMAIN blocks : h \in peers[blocks[h]].delivered

\* C2: pool.Height changes only in ProcessedCurrentHeightBlock, and every
\* such call adds exactly 1 to it.
C2_HeightAdvancesByOne ==
    [][IF lastCall'.op = "ProcessedCurrentHeightBlock"
       THEN Height' = Height + 1
       ELSE Height' = Height]_vars

\* a block was consumed while a peer holds the block of a later height
C2_Witness ==
    /\ lastCall.op = "ProcessedCurrentHeightBlock"
    /\ Height = MaxHeight
    /\ \E h \in DOMAIN blocks : h >= Height /\ h \in peers[blocks[h]].delivered

\* C3: RemovePeer of a known peer leaves plannedRequests \cup keys(blocks) as
\* it was, less the heights above the new MaxPeerHeight; every height of the
\* removed peer that is not above it is planned and no longer in blocks.
C3_RescheduleConservation ==
    [][\A p \in DOMAIN peers :
        (lastCall'.op = "RemovePeer" /\ lastCall'.peer = p) =>
            /\ plannedRequests' \cup DOMAIN blocks' =
                   {h \in plannedRequests \cup DOMAIN blocks : h <= MaxPeerHeight'}
            /\ \A h \in peers[p].pending \cup peers[p].delivered :
                   h <= MaxPeerHeight' =>
                       h \in plannedRequests' /\ h \notin DOMAIN blocks']_vars

\* the taller peer was removed: its heights are planned up to the height of
\* the peer that stays, which still holds a block
C3_Witness ==
    /\ lastCall.op = "RemovePeer" /\ lastCall.ret = "removed"
    /\ peers # EmptyMap /\ blocks # EmptyMap /\ plannedRequests # {}
    /\ MaxPeerHeight < MaxHeight
    /\ nextRequestHeight = MaxPeerHeight + 1

\* C4: no height is planned and assigned at the same time.
C4_PlannedAndBlocksDisjoint == plannedRequests \cap DOMAIN blocks = {}

\* a MakeNextRequests call in which the reactor answered NilPeer for a peer
\* that held a block: the height went back to the plan, another was assigned
C4_Witness ==
    /\ lastCall.op = "MakeNextRequests"
    /\ \E i \in DOMAIN lastCall.sent :
           lastCall.sent[i].err = "errNilPeerForBlockRequest"
    /\ \E h \in plannedRequests : h < lastCall.sent[1].height
    /\ blocks # EmptyMap

\* C5: no planned or assigned height is above MaxPeerHeight, and after the
\* removal of a peer nextRequestHeight is at most MaxPeerHeight + 1.
C5_NothingAboveMaxPeerHeight ==
    /\ \A h \in plannedRequests \cup DOMAIN blocks : h <= MaxPeerHeight
    /\ (lastCall.op = "RemovePeer" /\ lastCall.ret = "removed")
           => nextRequestHeight <= MaxPeerHeight + 1

\* the tallest peer was removed while heights were planned; a shorter stays
C5_Witness ==
    /\ lastCall.op = "RemovePeer" /\ lastCall.ret = "removed"
    /\ peers # EmptyMap
    /\ MaxPeerHeight < MaxHeight
    /\ plannedRequests # {}
    /\ nextRequestHeight = MaxPeerHeight + 1

\* C6: MaxPeerHeight is the largest height of a peer of the pool, 0 without peers.
C6_MaxPeerHeightIsMax ==
    IF DOMAIN peers = {}
    THEN MaxPeerHeight = 0
    ELSE /\ \E p \in DOMAIN peers : peers[p].Height = MaxPeerHeight
         /\ \A p \in DOMAIN peers : peers[p].Height <= MaxPeerHeight

\* the taller of two peers was removed
C6_Witness ==
    /\ lastCall.op = "RemovePeer" /\ lastCall.ret = "removed"
    /\ Cardinality(DOMAIN peers) = 1
    /\ MaxPeerHeight < MaxHeight
    /\ MaxPeerHeight > 0

\* C7 as claimed: pool.Height never exceeds nextRequestHeight.
C7_HeightAtMostNextRequestHeight == Height <= nextRequestHeight

\* C8: no peer has more than maxRequestsPerPeer pending requests.
C8_PendingAtMostLimit ==
    \A p \in DOMAIN peers : Cardinality(peers[p].pending) <= maxRequestsPerPeer

\* a peer at its limit is tall enough for a height that stays planned
C8_Witness ==
    /\ lastCall.op = "MakeNextRequests"
    /\ \E p \in DOMAIN peers :
          /\ Cardinality(peers[p].pending) = maxRequestsPerPeer
          /\ \E h \in plannedRequests : peers[p].Height >= h

\* C9: with maxNumRequests passed to every MakeNextRequests call, the number
\* of assigned heights plus the number of planned heights is at most that.
C9_InFlightAtMostMax ==
    Cardinality(DOMAIN blocks) + Cardinality(plannedRequests) <= maxNumRequests

\* planning stopped at the limit although a peer offers a further height
C9_Witness ==
    /\ lastCall.op = "MakeNextRequests"
    /\ Cardinality(DOMAIN blocks) + Cardinality(plannedRequests) = maxNumRequests
    /\ blocks # EmptyMap
    /\ nextRequestHeight <= MaxPeerHeight

\* C10: AddBlock from an unknown peer, or for a height assigned to another
\* peer, returns errBadDataFromPeer and changes nothing in the pool.
C10_AddBlockBadDataChangesNothing ==
    [][\A p \in PeerIDs, h \in Heights :
        ( /\ lastCall'.op = "AddBlock" /\ lastCall'.peer = p /\ lastCall'.height = h
          /\ \/ p \notin DOMAIN peers
             \/ (h \in DOMAIN blocks /\ blocks[h] # p) )
        => (lastCall'.ret = "errBadDataFromPeer" /\ UNCHANGED poolVars)]_vars

\* a known peer sent the block of a height that is assigned to the other peer
C10_Witness ==
    /\ lastCall.op = "AddBlock" /\ lastCall.ret = "errBadDataFromPeer"
    /\ lastCall.peer \in DOMAIN peers
    /\ lastCall.height \in DOMAIN blocks
    /\ blocks[lastCall.height] # lastCall.peer
    /\ lastCall.height \in peers[blocks[lastCall.height]].pending

\* C11: UpdatePeer of a known peer with a lower height returns
\* errPeerLowersItsHeight and removes the peer: the peer is gone, no height
\* is assigned to it, its heights up to the new MaxPeerHeight are planned,
\* and MaxPeerHeight is the maximum over the peers that stay.
C11_LoweredHeightRemovesPeer ==
    [][\A p \in DOMAIN peers, height \in Heights :
        ( /\ lastCall'.op = "UpdatePeer"
          /\ lastCall'.peer = p /\ lastCall'.height = height
          /\ height < peers[p].Height )
        => /\ lastCall'.ret = "errPeerLowersItsHeight"
           /\ p \notin DOMAIN peers'
           /\ \A h \in DOMAIN blocks' : blocks'[h] # p
           /\ \A h \in DOMAIN blocks :
                  (blocks[h] = p /\ h <= MaxPeerHeight') => h \in plannedRequests'
           /\ \A q \in DOMAIN peers' : peers'[q].Height <= MaxPeerHeight'
           /\ IF DOMAIN peers' = {} THEN MaxPeerHeight' = 0
              ELSE \E q \in DOMAIN peers' : peers'[q].Height = MaxPeerHeight']_vars

\* the peer that lowered its height is gone, a height it held is planned
\* again and the other peer stays with a block of its own
C11_Witness ==
    /\ lastCall.op = "UpdatePeer" /\ lastCall.ret = "errPeerLowersItsHeight"
    /\ lastCall.peer \notin DOMAIN peers
    /\ plannedRequests # {}
    /\ blocks # EmptyMap

\* C12: UpdatePeer of an unknown peer below pool.Height returns
\* errPeerTooShort and changes nothing in the pool; at or above pool.Height
\* it adds a peer record with that height.
C12_UnknownPeerAdmission ==
    [][\A p \in PeerIDs \ DOMAIN peers, height \in Heights :
        ( /\ lastCall'.op = "UpdatePeer"
          /\ lastCall'.peer = p /\ lastCall'.height = height )
        => IF height < Height
           THEN lastCall'.ret = "errPeerTooShort" /\ UNCHANGED poolVars
           ELSE /\ lastCall'.ret = "nil"
                /\ p \in DOMAIN peers'
                /\ peers'[p].Height = height]_vars

\* a peer below pool.Height was refused while the pool has a peer at work
C12_Witness ==
    /\ lastCall.op = "UpdatePeer" /\ lastCall.ret = "errPeerTooShort"
    /\ lastCall.peer \notin DOMAIN peers
    /\ lastCall.height < Height
    /\ blocks # EmptyMap

\* C13 as claimed: decoding the wire form of a valid message gives the
\* message back; a StatusRequestMessage is a StatusRequest on the wire and a
\* StatusResponseMessage a StatusResponse, and every wire variant decodes to
\* the message variant of the same name.
C13_CodecRoundTrip ==
    LET wireName(type) ==
            CASE type = "BlockRequestMessage" -> "BlockRequest"
              [] type = "BlockResponseMessage" -> "BlockResponse"
              [] type = "NoBlockResponseMessage" -> "NoBlockResponse"
              [] type = "StatusRequestMessage" -> "StatusRequest"
              [] type = "StatusResponseMessage" -> "StatusResponse"
    IN /\ (codec.stage \in {"encoded", "decoded"}
             /\ codec.msg.type # "unknown" /\ ValidateBasic(codec.msg))
          => (codec.err = "nil" /\ codec.wire.sum = wireName(codec.msg.type))
       /\ (codec.stage = "decoded" /\ ValidateBasic(codec.msg))
          => (codec.out = codec.msg /\ codec.wire.sum = wireName(codec.out.type))

\* the heights of the last MakeNextRequests call that a peer accepted
sentHeights(call) ==
    {call.sent[i].height : i \in {j \in DOMAIN call.sent : call.sent[j].err = "nil"}}

\* the reactor was asked in ascending order of height, and every height a
\* peer accepted is below every height of the batch that none accepted
stoppedAtFirstFailure(call) ==
    /\ \A i, j \in DOMAIN call.sent :
           i <= j => call.sent[i].height <= call.sent[j].height
    /\ \A k \in sentHeights(call), u \in call.batch \ sentHeights(call) : k < u

\* the only request of the call was answered SendQueueFull
onlyPeerQueueFull(call) ==
    /\ Len(call.sent) = 1
    /\ call.sent[1].err = "errSendQueueFull"
    /\ call.sent[1].height = MinOf(call.batch)

stalledPeers ==
    LET missing(h) == h \in DOMAIN blocks /\ h \notin peers[blocks[h]].delivered
    IN IF missing(Height) THEN {blocks[Height]}
       ELSE IF missing(Height + 1) THEN {blocks[Height + 1]}
       ELSE {}

\* C15 as claimed: RemovePeerAtCurrentHeights removes exactly the peer that
\* has not delivered the block at pool.Height, else the one that has not
\* delivered the block at pool.Height + 1, no other peer, and every height
\* of the removed peer is planned again.
C15_RemovesStalledPeerAsClaimed ==
    [][lastCall'.op = "RemovePeerAtCurrentHeights" =>
        /\ DOMAIN peers \ DOMAIN peers' = stalledPeers
        /\ \A q \in DOMAIN peers' : q \in DOMAIN peers /\ peers'[q] = peers[q]
        /\ \A p \in stalledPeers :
               \A h \in peers[p].pending \cup peers[p].delivered :
                   h \in plannedRequests']_vars

\* C15, amended: as claimed, but a height of the removed peer is planned
\* again only if it is not above the new MaxPeerHeight.
C15_RemovesStalledPeer ==
    [][lastCall'.op = "RemovePeerAtCurrentHeights" =>
        /\ DOMAIN peers \ DOMAIN peers' = stalledPeers
        /\ \A q \in DOMAIN peers' : q \in DOMAIN peers /\ peers'[q] = peers[q]
        /\ \A p \in stalledPeers :
               \A h \in peers[p].pending \cup peers[p].delivered :
                   /\ h \notin DOMAIN blocks'
                   /\ h <= MaxPeerHeight' => h \in plannedRequests']_vars

\* the peer that owed the block at pool.Height was removed and the height is
\* planned again; the peer that delivered the next block stays
C15_Witness ==
    /\ lastCall.op = "RemovePeerAtCurrentHeights"
    /\ Height \in plannedRequests
    /\ Height + 1 \in DOMAIN blocks
    /\ Height + 1 \in peers[blocks[Height + 1]].delivered
    /\ Cardinality(DOMAIN peers) = 1

\* the good peer is in the pool and advertises height n
goodPeerAt(n) == GoodPeer \in DOMAIN peers /\ peers[GoodPeer].Height = n

\* a step that adds a peer to the pool
admitsPeer == ~(DOMAIN peers' \subseteq DOMAIN peers)

\* C16: once a peer that serves every request is in the pool at height n,
\* pool.Height eventually exceeds n.  Stated with less than the claim asks
\* for: the stall timer is fair (SpecSync), peers stop being admitted from
\* some point on, and ReachedMaxHeight is left out.
C16_Progress ==
    <>[][~admitsPeer]_vars => \A n \in Heights : goodPeerAt(n) ~> (Height > n)

\* C17: every height that is planned or assigned is at least pool.Height:
\* the pool never plans or requests a height the executor has consumed.
C17_NothingBelowHeight ==
    \A h \in plannedRequests \cup DOMAIN blocks : h >= Height

\* C18: every peer of the pool advertises a height of at least pool.Height.
C18_NoShortPeer ==
    \A p \in DOMAIN peers : peers[p].Height >= Height

\* the executor has moved pool.Height past the initial heights and a peer
\* that is not short is still in the pool
C18_Witness ==
    /\ lastCall.op = "ProcessedCurrentHeightBlock"
    /\ Height > MaxInitHeight
    /\ \E p \in DOMAIN peers : peers[p].Height = Height

\* C19: every height a peer holds, as a pending request or a delivered
\* block, is assigned to that peer in pool.blocks.
C19_PeerHeightsAreAssigned ==
    \A p \in DOMAIN peers :
        \A h \in peers[p].pending \cup peers[p].delivered :
            h \in DOMAIN blocks /\ blocks[h] = p

\* the executor consumed a block of a peer that stays in the pool and still
\* holds a later height
C19_Witness ==
    /\ lastCall.op = "ProcessedCurrentHeightBlock"
    /\ \E p \in DOMAIN peers :
           /\ peers[p].pending \cup peers[p].delivered # {}
           /\ \A h \in peers[p].pending \cup peers[p].delivered : h >= Height
    /\ Height > 1

\* C20: RemovePeer for an id that is not in pool.peers changes no field of
\* the pool, so removing a peer a second time has no further effect.
C20_RemoveUnknownPeerChangesNothing ==
    [][(lastCall'.op = "RemovePeer" /\ lastCall'.peer \notin DOMAIN peers)
           => UNCHANGED poolVars]_vars

\* RemovePeer was called for a peer that is not in the pool while another
\* peer holds a block and a height is planned
C20_Witness ==
    /\ lastCall.op = "RemovePeer"
    /\ lastCall.ret = "noPeer"
    /\ lastCall.peer \notin DOMAIN peers
    /\ blocks # EmptyMap
    /\ plannedRequests # {}

====
